---- MODULE Spec2Model ----
(***************************************************************************)
(* State-machine model of the WhatsApp AI backend (src/server.js, v6.1).   *)
(* Two subsystems share the tenant store `clientes`:                        *)
(*   - the cart lifecycle (carrito-abandonado / pedido-creado webhooks and  *)
(*     the cron reminder sweep): SpecOrders, SpecCron, SpecRace,            *)
(*     SpecBacklog, SpecIngest;                                             *)
(*   - the conversation engine (whatsapp-webhook): SpecConv;                *)
(* SpecWebhooks runs one request of each webhook side by side; SpecSends   *)
(* runs a cron sweep beside a whatsapp-webhook request.                     *)
(* Every `await` of a handler is a separate step, so that handlers and      *)
(* sweeps interleave exactly where the Node.js event loop lets them.        *)
(* Every external call (Firestore, Twilio, Gemini) has its outcome chosen   *)
(* nondeterministically: it resolves or it rejects.                         *)
(***************************************************************************)
EXTENDS Integers, Sequences, FiniteSets, TLC

VARIABLES
    clientes,            \* Firestore collection 'clientes': tenant id -> document
    carritosAbandonados, \* Firestore collection 'carritosAbandonados', in creation order
    now,                 \* wall clock, in hours
    sweeps,              \* one record per (possibly overlapping) cron run
    marks,               \* one record per in-flight pedido-creado request
    ingests,             \* one record per carrito-abandonado request followed step by step
    conversaciones,      \* Firestore collection 'conversaciones': doc id -> document
    inbound              \* one record per whatsapp-webhook request

vars == <<clientes, carritosAbandonados, now, sweeps, marks, ingests,
          conversaciones, inbound>>

cartVars == <<carritosAbandonados, now, sweeps, marks, ingests>>
convVars == <<conversaciones, inbound>>

----------------------------------------------------------------------------
(* Bounds of the model *)

\* at most this many carts are ever ingested
MaxCarts == 2
\* the clock stops after this many hours
MaxNow == 1
\* the number of carts in the store when a backlog is swept
BacklogSize == 3

(* Program constants *)

\* 60 * 60 * 1000 ms, in hours
ThresholdHours == 1

----------------------------------------------------------------------------
(* Values *)

\* JavaScript `undefined`, for a request field that was not sent
Undefined == <<"<undefined>">>

TenantIds == {"t1", "t2"}
SweepIds == {"s1", "s2"}
MarkIds == {"m1", "m2"}

Digits == {"0", "1", "2", "3", "4", "5", "6", "7", "8", "9"}

\* A JavaScript string is a sequence of characters.
EmptyString == << >>
\* a string of white space only
BlankString == <<" ">>
\* a tenant's FAQ text and its alert phone as typed in the frontend
FaqText == <<"Shipping takes 3 days">>
AlertPhone == <<"+", "3", "4", " ", "9">>
RawPhones == { <<"6", "1">>, <<"6", " ", "1">>, <<"+", "7">> }
Url == <<"https://shop/r">>
\* productos: an array of line items, each given by its `nombre`
Productos == <<"Zapatillas">>
EmptyArray == << >>

ApiKey(t) == <<"key", t>>

\* Bodies of carrito-abandonado requests: well-formed ones (two spellings of one
\* phone, a second phone whose cart has an empty productos array), and one body
\* with each required field missing or empty.
CartBodies ==
    { [clienteTelefono |-> p, urlRecuperacion |-> Url, productos |-> Productos] :
         p \in { <<"6", "1">>, <<"6", " ", "1">> } }
    \cup { [clienteTelefono |-> <<"+", "7">>, urlRecuperacion |-> Url, productos |-> EmptyArray] }
    \cup { [clienteTelefono |-> p, urlRecuperacion |-> Url, productos |-> Productos] :
         p \in {Undefined, EmptyString} }
    \cup { [clienteTelefono |-> <<"6", "1">>, urlRecuperacion |-> u, productos |-> Productos] :
         u \in {Undefined, EmptyString} }
    \cup { [clienteTelefono |-> <<"6", "1">>, urlRecuperacion |-> Url, productos |-> Undefined] }

\* Bodies of pedido-creado requests
OrderBodies == { [clienteTelefono |-> p] : p \in RawPhones \cup {Undefined, EmptyString} }

\* X-API-Key headers: absent, unknown, or a tenant's key
ApiKeyInputs == { Undefined, <<"key", "nobody">> } \cup { ApiKey(t) : t \in TenantIds }

IsDigit(ch) == ch \in Digits

\* the normalisation that removes the spaces only: replace(/ /g, '')
FormatPhoneSpacesOnly(raw) == <<"whatsapp:+">> \o SelectSeq(raw, LAMBDA ch : ch # " ")

\* `whatsapp:+${clienteTelefono.replace(/\D/g, '')}`
FormatPhone(raw) == <<"whatsapp:+">> \o SelectSeq(raw, IsDigit)

\* !field for a string field: undefined and '' are falsy
FalsyString(v) == v = Undefined \/ v = EmptyString

\* !productos: only undefined is falsy, the empty array is truthy
FalsyArray(v) == v = Undefined

\* The tenant documents the model starts with (created out-of-band).
TenantDoc(t) ==
    [ exists |-> TRUE,
      whatsapp |-> <<"whatsapp:+shop", t>>,
      apiKey |-> ApiKey(t),
      faqs |-> FaqText,
      telefonoAlertas |-> AlertPhone ]

----------------------------------------------------------------------------
(* authenticateApiKey *)

\* db.collection('clientes').where('apiKey', '==', apiKey).limit(1).get()
TenantsWithKey(apiKey) ==
    { t \in TenantIds : clientes[t].exists /\ clientes[t].apiKey = apiKey }

\* "401" without the header, "403" for an unknown key, else next()
AuthStatus(apiKey) ==
    IF apiKey = Undefined THEN "401"
    ELSE IF TenantsWithKey(apiKey) = {} THEN "403"
    ELSE "next"

----------------------------------------------------------------------------
(* The acknowledgment of a webhook *)

Recibido == "200 Recibido"
EventReceived == "200 EVENT_RECEIVED"

\* a handler that does not answer its caller
AckDropped(rec, response) == rec

\* res.status(200).send(...), the first statement of each handler
Ack(rec, response) == [rec EXCEPT !.res = response]

----------------------------------------------------------------------------
(* POST /api/webhooks/carrito-abandonado *)

\* the document handed to db.collection('carritosAbandonados').add()
NewAbandonedCartAt(tiendaId, clienteTelefono, urlRecuperacion, productos, serverTimestamp) ==
    [ tiendaId |-> tiendaId,
      cliente |-> FormatPhone(clienteTelefono),
      productos |-> productos,
      urlRecuperacion |-> urlRecuperacion,
      timestamp |-> serverTimestamp,
      recuperado |-> FALSE,
      estadoMensaje |-> "pendiente" ]

NewAbandonedCart(tiendaId, clienteTelefono, urlRecuperacion, productos) ==
    NewAbandonedCartAt(tiendaId, clienteTelefono, urlRecuperacion, productos, now)

\* a validation that looks at the phone only
IngestRejectsPhoneOnly(clienteTelefono, urlRecuperacion, productos) ==
    FalsyString(clienteTelefono)

\* if (!clienteTelefono || !urlRecuperacion || !productos) return;
IngestRejects(clienteTelefono, urlRecuperacion, productos) ==
    FalsyString(clienteTelefono) \/ FalsyString(urlRecuperacion) \/ FalsyArray(productos)

\* The whole request: the middleware, the acknowledgment, the validation and the
\* single add(); a request that is refused, or whose add() rejects, changes nothing.
IngestCart(apiKey, clienteTelefono, urlRecuperacion, productos, storeOk) ==
    /\ IF \/ AuthStatus(apiKey) # "next"
          \/ IngestRejects(clienteTelefono, urlRecuperacion, productos)
          \/ ~storeOk
       THEN UNCHANGED carritosAbandonados
       ELSE /\ Len(carritosAbandonados) < MaxCarts
            /\ \E t \in TenantsWithKey(apiKey) :
                 carritosAbandonados' = Append(carritosAbandonados,
                     NewAbandonedCart(t, clienteTelefono, urlRecuperacion, productos))
    /\ UNCHANGED <<clientes, now, sweeps, marks, ingests, convVars>>

\* The same request followed step by step.
\* pc: "idle" (no request yet), "add" (awaiting the add of the cart), "return"
\* (at the return of the validation), "catch" (in the catch block), "done"
NoCartBody ==
    [clienteTelefono |-> Undefined, urlRecuperacion |-> Undefined, productos |-> Undefined]

IngestIdle == [pc |-> "idle", res |-> "none", tiendaId |-> "", body |-> NoCartBody, doc |-> 0]

\* the middleware lets the request through, the handler acknowledges it, validates
\* it and calls add(); a request that the middleware refuses never gets here
IngestRequest(i, apiKey, body, authOk) ==
    /\ ingests[i].pc = "idle"
    /\ IF AuthStatus(apiKey) # "next" \/ ~authOk
       THEN UNCHANGED ingests
       ELSE \E t \in TenantsWithKey(apiKey) :
              ingests' = [ingests EXCEPT ![i] =
                 [Ack(@, Recibido) EXCEPT
                     !.tiendaId = t,
                     !.body = body,
                     !.pc = IF IngestRejects(body.clienteTelefono, body.urlRecuperacion,
                                             body.productos)
                            THEN "return" ELSE "add"]]
    /\ UNCHANGED <<clientes, carritosAbandonados, now, sweeps, marks, convVars>>

\* await db.collection('carritosAbandonados').add(newAbandonedCart) resolves or rejects
IngestAdd(i, storeOk) ==
    /\ ingests[i].pc = "add"
    /\ IF storeOk
       THEN /\ carritosAbandonados' = Append(carritosAbandonados,
                   NewAbandonedCart(ingests[i].tiendaId, ingests[i].body.clienteTelefono,
                                    ingests[i].body.urlRecuperacion, ingests[i].body.productos))
            /\ ingests' = [ingests EXCEPT ![i].pc = "done",
                                          ![i].doc = Len(carritosAbandonados) + 1]
       ELSE /\ UNCHANGED carritosAbandonados
            /\ ingests' = [ingests EXCEPT ![i].pc = "catch"]
    /\ UNCHANGED <<clientes, now, sweeps, marks, convVars>>

----------------------------------------------------------------------------
(* POST /api/webhooks/pedido-creado *)

\* MarkMatches without its where('cliente', ...) clause
MarkMatchesAnyCustomer(store, tiendaId, formattedPhone) ==
    { k \in DOMAIN store : /\ store[k].tiendaId = tiendaId
                           /\ store[k].recuperado = FALSE }

\* MarkMatches without its where('recuperado', '==', false) clause
MarkMatchesRecoveredToo(store, tiendaId, formattedPhone) ==
    { k \in DOMAIN store : /\ store[k].tiendaId = tiendaId
                           /\ store[k].cliente = formattedPhone }

\* .where('tiendaId','==',t).where('cliente','==',phone).where('recuperado','==',false)
MarkMatches(store, tiendaId, formattedPhone) ==
    { k \in DOMAIN store : /\ store[k].tiendaId = tiendaId
                           /\ store[k].cliente = formattedPhone
                           /\ store[k].recuperado = FALSE }

\* UpdateRecuperado as a set() of a fresh document instead of an update()
UpdateRecuperadoResetsEstado(store, k) ==
    [store EXCEPT ![k].recuperado = TRUE, ![k].estadoMensaje = "pendiente"]

\* an update of every cart of the store instead of the one that was found
UpdateRecuperadoEveryCart(store, k) ==
    [j \in DOMAIN store |-> [store[j] EXCEPT !.recuperado = TRUE]]

\* snapshot.docs[0].ref.update({ recuperado: true })
UpdateRecuperado(store, k) == [store EXCEPT ![k].recuperado = TRUE]

\* The stores a whole, undisturbed request can leave when its Firestore calls
\* resolve: the store itself when the query is empty, else one match updated.
MarkOrderRecovered(store, tiendaId, formattedPhone) ==
    IF MarkMatches(store, tiendaId, formattedPhone) = {}
    THEN {store}
    ELSE { UpdateRecuperado(store, k) : k \in MarkMatches(store, tiendaId, formattedPhone) }

\* pc: "idle" (no request), "invalid" (at `if (!clienteTelefono) return`),
\* "update" (awaiting the update of `doc`), "return" (at `if (snapshot.empty)
\* return`), "catch" (in the catch block)
\* tiendaId and cliente: req.tiendaId and formattedPhone of a request that awaits
\* its update
MarkIdle ==
    [pc |-> "idle", doc |-> 0, res |-> "none", tiendaId |-> "", cliente |-> Undefined]

\* authentication, acknowledgment, validation and the query; limit(1) returns one
\* of the matches; a request that the middleware refuses never gets to the handler
MarkQuery(m, apiKey, clienteTelefono, storeOk) ==
    /\ marks[m].pc = "idle"
    /\ IF AuthStatus(apiKey) # "next"
       THEN UNCHANGED marks
       ELSE IF FalsyString(clienteTelefono)
       THEN marks' = [marks EXCEPT ![m] = [Ack(@, Recibido) EXCEPT !.pc = "invalid"]]
       ELSE IF ~storeOk
       THEN marks' = [marks EXCEPT ![m] = [Ack(@, Recibido) EXCEPT !.pc = "catch"]]
       ELSE \E t \in TenantsWithKey(apiKey) :
              LET matches == MarkMatches(carritosAbandonados, t, FormatPhone(clienteTelefono))
              IN IF matches = {}
                 THEN marks' = [marks EXCEPT ![m] = [Ack(@, Recibido) EXCEPT !.pc = "return"]]
                 ELSE \E k \in matches :
                        marks' = [marks EXCEPT ![m] =
                                     [Ack(@, Recibido) EXCEPT
                                         !.pc = "update", !.doc = k, !.tiendaId = t,
                                         !.cliente = FormatPhone(clienteTelefono)]]
    /\ UNCHANGED <<clientes, carritosAbandonados, now, sweeps, ingests, convVars>>

\* await snapshot.docs[0].ref.update(...) resolves or rejects
MarkUpdate(m, storeOk) ==
    /\ marks[m].pc = "update"
    /\ IF storeOk
       THEN /\ carritosAbandonados' = UpdateRecuperado(carritosAbandonados, marks[m].doc)
            /\ marks' = [marks EXCEPT ![m] = MarkIdle]
       ELSE /\ UNCHANGED carritosAbandonados
            /\ marks' = [marks EXCEPT ![m] =
                            [MarkIdle EXCEPT !.pc = "catch", !.res = marks[m].res]]
    /\ UNCHANGED <<clientes, now, sweeps, ingests, convVars>>

\* the handler returns: early at line 159 or 163, or after console.error in the catch
MarkReturn(m) ==
    /\ marks[m].pc \in {"invalid", "return", "catch"}
    /\ marks' = [marks EXCEPT ![m] = MarkIdle]
    /\ UNCHANGED <<clientes, carritosAbandonados, now, sweeps, ingests, convVars>>

----------------------------------------------------------------------------
(* cron.schedule('*/5 * * * *', ...) : the reminder sweep *)

\* SweepSelects with a where('recuperado', '==', false) clause added
SweepSelectsUnrecovered(cart, oneHourAgo) ==
    /\ cart.estadoMensaje = "pendiente"
    /\ cart.timestamp <= oneHourAgo
    /\ cart.recuperado = FALSE

\* SweepSelects without its where('estadoMensaje', ...) clause
SweepSelectsAnyEstado(cart, oneHourAgo) == cart.timestamp <= oneHourAgo

\* .where('estadoMensaje','==','pendiente').where('timestamp','<=',oneHourAgo)
SweepSelects(cart, oneHourAgo) ==
    /\ cart.estadoMensaje = "pendiente"
    /\ cart.timestamp <= oneHourAgo

RECURSIVE Ascending(_)
\* the elements of a set of numbers as an ascending sequence
Ascending(S) ==
    IF S = {} THEN << >>
    ELSE LET lo == CHOOSE x \in S : \A y \in S : x <= y
         IN <<lo>> \o Ascending(S \ {lo})

\* snapshot.docs: Firestore returns the matches ordered by timestamp
SweepSnapshot(store, clock) ==
    Ascending({ k \in DOMAIN store : SweepSelects(store[k], clock - ThresholdHours) })

\* UpdateEstadoMensaje as a set() of a fresh document instead of an update()
UpdateEstadoMensajeResetsRecuperado(store, k) ==
    [store EXCEPT ![k].estadoMensaje = "recordatorio_enviado", ![k].recuperado = FALSE]

\* UpdateEstadoMensaje through snapshot.docs[0].ref instead of doc.ref
UpdateEstadoMensajeFirstDoc(store, k) ==
    [store EXCEPT ![1].estadoMensaje = "recordatorio_enviado"]

\* doc.ref.update({ estadoMensaje: 'recordatorio_enviado' })
UpdateEstadoMensaje(store, k) ==
    [store EXCEPT ![k].estadoMensaje = "recordatorio_enviado"]

\* cart.productos[0].nombre throws a TypeError when productos[0] is undefined
ComposeThrows(cart) == Len(cart.productos) = 0

\* pc: "idle", "get" (awaiting the tenant of docs[i]), "send" (awaiting Twilio),
\* "update" (awaiting the update of docs[i]), "catch" (in the catch block with the
\* error `err`; the snapshot is out of scope there).
\* skipped: the documents this run passed over with `continue`.
SweepIdle == [pc |-> "idle", docs |-> << >>, i |-> 0, err |-> "none", skipped |-> {}]

\* the `for` loop moves to the next document, or the run ends after the last;
\* `skip` is the set of documents passed over by this iteration's `continue`
SweepAdvance(s, skip) ==
    IF sweeps[s].i < Len(sweeps[s].docs)
    THEN sweeps' = [sweeps EXCEPT ![s].pc = "get", ![s].i = @ + 1,
                                  ![s].skipped = @ \cup skip]
    ELSE sweeps' = [sweeps EXCEPT ![s] = SweepIdle]

\* an exception leaves the loop for the catch around the whole run
SweepThrow(s, error) ==
    sweeps' = [sweeps EXCEPT ![s] = [SweepIdle EXCEPT !.pc = "catch", !.err = error]]

\* the timer fires: the query, and `if (snapshot.empty) return`
SweepQuery(s, storeOk) ==
    /\ sweeps[s].pc = "idle"
    /\ IF ~storeOk
       THEN SweepThrow(s, "store-error")
       ELSE LET docs == SweepSnapshot(carritosAbandonados, now)
            IN IF docs = << >>
               THEN UNCHANGED sweeps
               ELSE sweeps' = [sweeps EXCEPT ![s] =
                                 [SweepIdle EXCEPT !.pc = "get", !.docs = docs, !.i = 1]]
    /\ UNCHANGED <<clientes, carritosAbandonados, now, marks, ingests, convVars>>

\* clientes.doc(cart.tiendaId).get(), `if (!shopDoc.exists) continue`, the message
SweepGetTenant(s, storeOk) ==
    /\ sweeps[s].pc = "get"
    /\ LET cart == carritosAbandonados[sweeps[s].docs[sweeps[s].i]]
       IN IF ~storeOk
          THEN SweepThrow(s, "store-error")
          ELSE IF ~clientes[cart.tiendaId].exists
          THEN SweepAdvance(s, {sweeps[s].docs[sweeps[s].i]})
          ELSE IF ComposeThrows(cart)
          THEN SweepThrow(s, "type-error")
          ELSE sweeps' = [sweeps EXCEPT ![s].pc = "send"]
    /\ UNCHANGED <<clientes, carritosAbandonados, now, marks, ingests, convVars>>

\* a send that, when it is rejected, takes the loop back to the same document
SweepSendRetries(s, sendOk) ==
    /\ sweeps[s].pc = "send"
    /\ IF sendOk
       THEN sweeps' = [sweeps EXCEPT ![s].pc = "update"]
       ELSE sweeps' = [sweeps EXCEPT ![s].pc = "get"]
    /\ UNCHANGED <<clientes, carritosAbandonados, now, marks, ingests, convVars>>

\* await twilioClient.messages.create(...) resolves or rejects
SweepSend(s, sendOk) ==
    /\ sweeps[s].pc = "send"
    /\ IF sendOk
       THEN sweeps' = [sweeps EXCEPT ![s].pc = "update"]
       ELSE SweepThrow(s, "send-error")
    /\ UNCHANGED <<clientes, carritosAbandonados, now, marks, ingests, convVars>>

\* SweepUpdate writing the whole document back, doc.ref.set({ ...cart, estadoMensaje }),
\* with the recuperado that the query of the run had read
SweepUpdateWritesSnapshot(s, storeOk) ==
    /\ sweeps[s].pc = "update"
    /\ IF storeOk
       THEN /\ \E asRead \in BOOLEAN :
                 carritosAbandonados' =
                    [carritosAbandonados EXCEPT
                        ![sweeps[s].docs[sweeps[s].i]].estadoMensaje = "recordatorio_enviado",
                        ![sweeps[s].docs[sweeps[s].i]].recuperado = asRead]
            /\ SweepAdvance(s, {})
       ELSE /\ UNCHANGED carritosAbandonados
            /\ SweepThrow(s, "store-error")
    /\ UNCHANGED <<clientes, now, marks, ingests, convVars>>

\* await doc.ref.update(...) resolves or rejects
SweepUpdate(s, storeOk) ==
    /\ sweeps[s].pc = "update"
    /\ IF storeOk
       THEN /\ carritosAbandonados' =
                UpdateEstadoMensaje(carritosAbandonados, sweeps[s].docs[sweeps[s].i])
            /\ SweepAdvance(s, {})
       ELSE /\ UNCHANGED carritosAbandonados
            /\ SweepThrow(s, "store-error")
    /\ UNCHANGED <<clientes, now, marks, ingests, convVars>>

\* catch (error) { console.error('CRON Error:', error); } : the run ends
SweepCatch(s) ==
    /\ sweeps[s].pc = "catch"
    /\ sweeps' = [sweeps EXCEPT ![s] = SweepIdle]
    /\ UNCHANGED <<clientes, carritosAbandonados, now, marks, ingests, convVars>>

----------------------------------------------------------------------------
(* The environment of the cart lifecycle *)

\* Date.now() and serverTimestamp() advance
Tick ==
    /\ now < MaxNow
    /\ now' = now + 1
    /\ UNCHANGED <<clientes, carritosAbandonados, sweeps, marks, ingests, convVars>>

\* a tenant document is deleted out-of-band
TenantRemoved(t) ==
    /\ clientes[t].exists
    /\ clientes' = [clientes EXCEPT ![t].exists = FALSE]
    /\ UNCHANGED <<carritosAbandonados, now, sweeps, marks, ingests, convVars>>

----------------------------------------------------------------------------
(* Specification of the cart lifecycle *)

\* the store, the clock and the tenants when the server starts
InitStores ==
    /\ clientes = [t \in TenantIds |-> TenantDoc(t)]
    /\ carritosAbandonados = << >>
    /\ now = 0
    /\ conversaciones = << >>
    /\ inbound = << >>

Ingests(keys, cartBodies) ==
    \E k \in keys, b \in cartBodies, ok \in BOOLEAN :
       IngestCart(k, b.clienteTelefono, b.urlRecuperacion, b.productos, ok)

Orders(keys, orderBodies) ==
    \/ \E m \in DOMAIN marks, k \in keys, b \in orderBodies, ok \in BOOLEAN :
          MarkQuery(m, k, b.clienteTelefono, ok)
    \/ \E m \in DOMAIN marks, ok \in BOOLEAN : MarkUpdate(m, ok)
    \/ \E m \in DOMAIN marks : MarkReturn(m)

CronRuns ==
    \/ \E s \in DOMAIN sweeps, ok \in BOOLEAN : SweepQuery(s, ok)
    \/ \E s \in DOMAIN sweeps, ok \in BOOLEAN : SweepGetTenant(s, ok)
    \/ \E s \in DOMAIN sweeps, ok \in BOOLEAN : SweepSend(s, ok)
    \/ \E s \in DOMAIN sweeps, ok \in BOOLEAN : SweepUpdate(s, ok)
    \/ \E s \in DOMAIN sweeps : SweepCatch(s)

----------------------------------------------------------------------------
(* Specification of the two e-commerce webhooks *)

\* Carts of every kind are ingested and two pedido-creado requests run
\* concurrently; no cron run.
InitOrders ==
    /\ InitStores
    /\ sweeps = << >>
    /\ marks = [m \in MarkIds |-> MarkIdle]
    /\ ingests = << >>

NextOrders ==
    \/ Ingests(ApiKeyInputs, CartBodies)
    \/ Orders(ApiKeyInputs, OrderBodies)
    \/ \E t \in TenantIds : TenantRemoved(t)

SpecOrders == InitOrders /\ [][NextOrders]_vars

----------------------------------------------------------------------------
(* Specification of the reminder sweep *)

\* Carts of every kind are ingested, time passes and one cron run at a time
\* sweeps them; no pedido-creado request.
InitCron ==
    /\ InitStores
    /\ sweeps = [s \in {"s1"} |-> SweepIdle]
    /\ marks = << >>
    /\ ingests = << >>

NextCron ==
    \/ Ingests(ApiKeyInputs, CartBodies)
    \/ CronRuns
    \/ Tick
    \/ \E t \in TenantIds : TenantRemoved(t)

SpecCron == InitCron /\ [][NextCron]_vars

----------------------------------------------------------------------------
(* Specification of the races: overlapping cron runs and concurrent requests *)

\* Two overlapping cron runs and two concurrent pedido-creado requests, all carts
\* of one tenant and one customer.
InitRace ==
    /\ InitStores
    /\ sweeps = [s \in SweepIds |-> SweepIdle]
    /\ marks = [m \in MarkIds |-> MarkIdle]
    /\ ingests = << >>

RaceCartBodies ==
    { [clienteTelefono |-> <<"6", "1">>, urlRecuperacion |-> Url, productos |-> Productos] }

RaceOrderBodies == { [clienteTelefono |-> <<"6", " ", "1">>] }

NextRace ==
    \/ Ingests({ApiKey("t1")}, RaceCartBodies)
    \/ Orders({ApiKey("t1")}, RaceOrderBodies)
    \/ CronRuns
    \/ Tick

SpecRace == InitRace /\ [][NextRace]_vars

----------------------------------------------------------------------------
(* Specification of the cart operations side by side *)

\* One cron run at a time and one pedido-creado request at a time, over the carts
\* of two tenants and two customers.
InitFrame ==
    /\ InitStores
    /\ sweeps = [s \in {"s1"} |-> SweepIdle]
    /\ marks = [m \in {"m1"} |-> MarkIdle]
    /\ ingests = << >>

FrameKeys == { ApiKey(t) : t \in TenantIds }

FrameCartBodies ==
    { b \in CartBodies :
        ~IngestRejects(b.clienteTelefono, b.urlRecuperacion, b.productos) }

FrameOrderBodies == { [clienteTelefono |-> p] : p \in RawPhones }

NextFrame ==
    \/ Ingests(FrameKeys, FrameCartBodies)
    \/ Orders(FrameKeys, FrameOrderBodies)
    \/ CronRuns
    \/ Tick

SpecFrame == InitFrame /\ [][NextFrame]_vars

----------------------------------------------------------------------------
(* Specification of a cron run over a backlog *)

\* the carts that CartBodies can put in the store, as they are one hour later
BacklogCarts ==
    { [NewAbandonedCartAt(t, b.clienteTelefono, b.urlRecuperacion, b.productos, 0)
         EXCEPT !.recuperado = r] :
        t \in TenantIds, r \in BOOLEAN,
        b \in { c \in CartBodies :
                  ~IngestRejects(c.clienteTelefono, c.urlRecuperacion, c.productos) } }

\* The server starts with BacklogSize overdue pending carts in the store.
InitBacklog ==
    /\ clientes = [t \in TenantIds |-> TenantDoc(t)]
    /\ carritosAbandonados \in [1..BacklogSize -> BacklogCarts]
    /\ now = ThresholdHours
    /\ sweeps = [s \in {"s1"} |-> SweepIdle]
    /\ marks = << >>
    /\ ingests = << >>
    /\ conversaciones = << >>
    /\ inbound = << >>

NextBacklog ==
    \/ CronRuns
    \/ \E t \in TenantIds : TenantRemoved(t)

SpecBacklog == InitBacklog /\ [][NextBacklog]_vars

----------------------------------------------------------------------------
(* Specification of the recurring cron runs, with fairness *)

\* the unrecovered carts of the backlog
PendingBacklogCarts == { c \in BacklogCarts : ~c.recuperado }

\* The server starts with BacklogSize overdue pending carts; both tenants exist
\* for good.
InitLive ==
    /\ clientes = [t \in TenantIds |-> TenantDoc(t)]
    /\ carritosAbandonados \in [1..BacklogSize -> PendingBacklogCarts]
    /\ now = ThresholdHours
    /\ sweeps = [s \in {"s1"} |-> SweepIdle]
    /\ marks = << >>
    /\ ingests = << >>
    /\ conversaciones = << >>
    /\ inbound = << >>

NextLive == CronRuns

\* run s is about to send the reminder of a cart of tenant t
SendsFor(s, t) ==
    /\ sweeps[s].pc = "send"
    /\ carritosAbandonados[sweeps[s].docs[sweeps[s].i]].tiendaId = t

\* cron.schedule fires every five minutes, so a run always starts again and goes
\* on; Firestore answers again and again; every send is settled, and Twilio
\* accepts the sends of tenant t1 again and again. The sends of tenant t2 may be
\* rejected for ever.
FairCron ==
    \A s \in {"s1"} :
       /\ SF_vars(SweepQuery(s, TRUE))
       /\ SF_vars(SweepGetTenant(s, TRUE))
       /\ WF_vars(\E sendOk \in BOOLEAN : SweepSend(s, sendOk))
       /\ SF_vars(SendsFor(s, "t1") /\ SweepSend(s, TRUE))
       /\ SF_vars(SweepUpdate(s, TRUE))
       /\ WF_vars(SweepCatch(s))

SpecLive == InitLive /\ [][NextLive]_vars /\ FairCron

----------------------------------------------------------------------------
(* The conversation engine: values *)

InboundIds == {"h1", "h2"}

\* req.body.From of the customers that write
Froms == { <<"whatsapp:", "+", "6", "1">>, <<"whatsapp:", "+", "7">> }
\* req.body.Body
Bodies == { <<"when does my order ship">> }
\* req.body.To: the number of a tenant, or a number no tenant has
Tos == { TenantDoc(t).whatsapp : t \in TenantIds } \cup { <<"whatsapp:+shop", "nobody">> }

Sentinel == <<"[HUMAN_TAKEOVER]">>
HandoffReply ==
    <<"Entiendo. Un agente se pondra en contacto contigo para ayudarte. Gracias.">>
NoFaqReply ==
    <<"Hola, gracias por contactar. Un agente revisara tu mensaje pronto.">>
Answer == <<"Orders ship within 3 days.">>
\* a text that holds the sentinel and something more
NearSentinel == Sentinel \o <<".">>

\* what an awaited call yields when it throws
Thrown == <<"<thrown>">>

\* String.prototype.trim
RECURSIVE TrimStart(_)
TrimStart(str) ==
    IF str # << >> /\ Head(str) = " " THEN TrimStart(Tail(str)) ELSE str

RECURSIVE TrimEnd(_)
TrimEnd(str) ==
    IF str # << >> /\ str[Len(str)] = " "
    THEN TrimEnd(SubSeq(str, 1, Len(str) - 1))
    ELSE str

Trim(str) == TrimEnd(TrimStart(str))

\* What the fetch to the Gemini API can come back with: the fetch rejects, the
\* status is not 2xx, the body is not JSON, the JSON has no candidates, the
\* first part has no text, or the first part has a text.
GeminiOutcomes ==
    { [kind |-> k, text |-> Undefined] :
        k \in {"reject", "not-ok", "bad-json", "no-candidates", "no-text"} }
    \cup
    { [kind |-> "text", text |-> x] :
        x \in { EmptyString, BlankString, Sentinel, Sentinel \o BlankString,
                Answer, BlankString \o Answer, NearSentinel } }

\* the body of the try block of generateResponseWithGemini
GeminiTry(outcome) ==
    CASE outcome.kind = "reject" -> Thrown
      [] outcome.kind = "not-ok" -> Sentinel
      [] outcome.kind = "bad-json" -> Thrown
      [] outcome.kind = "no-candidates" -> Sentinel
      [] outcome.kind = "no-text" -> Thrown
      [] outcome.kind = "text" ->
            IF Trim(outcome.text) = EmptyString THEN Sentinel ELSE Trim(outcome.text)

\* a provider that lets the exceptions of the try block escape
generateResponseWithoutCatch(outcome) == GeminiTry(outcome)

generateResponseWithGemini(outcome) ==
    IF GeminiTry(outcome) = Thrown THEN Sentinel ELSE GeminiTry(outcome)

\* shopData.faqs && shopData.faqs.trim() with the trim forgotten
HasFaqsUntrimmed(faqs) == ~FalsyString(faqs)

\* shopData.faqs && shopData.faqs.trim() !== ''
HasFaqs(faqs) == ~FalsyString(faqs) /\ Trim(faqs) # EmptyString

\* the tenant configurations the frontend can leave in 'clientes'
ShopConfigs ==
    { [TenantDoc(t) EXCEPT !.faqs = f, !.telefonoAlertas = a] :
        t \in TenantIds,
        f \in {Undefined, EmptyString, BlankString, FaqText},
        a \in {Undefined, AlertPhone} }

NoConversation ==
    [ exists |-> FALSE, tiendaId |-> "", lastUpdate |-> 0,
      customerPhone |-> Undefined, mensajes |-> << >> ]

InboundIdle ==
    [ pc |-> "idle", res |-> "none",
      from |-> Undefined, body |-> Undefined, shopId |-> "",
      whatsapp |-> Undefined, faqs |-> Undefined, telefonoAlertas |-> Undefined,
      provider |-> "none", aiResponse |-> Undefined,
      responseMessage |-> Undefined, notified |-> FALSE,
      alert |-> "none", writes |-> 0, appended |-> << >>, reply |-> "none",
      err |-> "none" ]

----------------------------------------------------------------------------
(* POST /whatsapp-webhook *)

\* an awaited call rejects: the catch of the handler logs it and the handler ends
InboundThrow(h, error) ==
    inbound' = [inbound EXCEPT ![h].pc = "caught", ![h].err = error]

\* a notifyHuman that sends the alert whether or not there is an alert phone
EnterNotifyHumanUnchecked(rec, message) ==
    [rec EXCEPT !.responseMessage = message, !.notified = TRUE, !.pc = "alert"]

\* notifyHuman up to its await: without an alert phone it only logs
EnterNotifyHuman(rec, message) ==
    [rec EXCEPT !.responseMessage = message,
                !.notified = TRUE,
                !.pc = IF FalsyString(rec.telefonoAlertas) THEN "bot-doc" ELSE "alert"]

\* the request is acknowledged and the tenant is looked up by its number
InboundLookup(h, from, body, to, storeOk) ==
    /\ inbound[h].pc = "idle"
    /\ LET found == { t \in TenantIds : clientes[t].exists /\ clientes[t].whatsapp = to }
           acked == Ack(inbound[h], EventReceived)
       IN  IF ~storeOk
           THEN inbound' = [inbound EXCEPT ![h] =
                      [acked EXCEPT !.pc = "caught", !.err = "store-error"]]
           ELSE IF found = {}
           THEN inbound' = [inbound EXCEPT ![h] = [acked EXCEPT !.pc = "returned"]]
           ELSE \E t \in found :
                  inbound' = [inbound EXCEPT ![h] =
                      [acked EXCEPT !.pc = "user-doc", !.from = from, !.body = body,
                                !.shopId = t, !.whatsapp = to,
                                !.faqs = clientes[t].faqs,
                                !.telefonoAlertas = clientes[t].telefonoAlertas]]
    /\ UNCHANGED <<clientes, conversaciones, cartVars>>

\* a set that replaces the document and what hangs from it
SetWithoutMerge(doc, tiendaId, conversationId, serverTimestamp) ==
    [NoConversation EXCEPT !.exists = TRUE,
                           !.tiendaId = tiendaId,
                           !.lastUpdate = serverTimestamp,
                           !.customerPhone = conversationId]

\* set({tiendaId, lastUpdate, customerPhone}, {merge: true})
SetWithMerge(doc, tiendaId, conversationId, serverTimestamp) ==
    [doc EXCEPT !.exists = TRUE,
                !.tiendaId = tiendaId,
                !.lastUpdate = serverTimestamp,
                !.customerPhone = conversationId]

\* saveMessageToConversation, first await: conversationRef.set(..., {merge: true})
SaveConversation(h, storeOk) ==
    /\ inbound[h].pc \in {"user-doc", "bot-doc"}
    /\ IF storeOk
       THEN /\ conversaciones' = [conversaciones EXCEPT ![inbound[h].from] =
                    SetWithMerge(@, inbound[h].shopId, inbound[h].from, now)]
            /\ inbound' = [inbound EXCEPT
                              ![h].writes = @ + 1,
                              ![h].pc = IF inbound[h].pc = "user-doc"
                                        THEN "user-msg" ELSE "bot-msg"]
       ELSE /\ InboundThrow(h, "store-error")
            /\ UNCHANGED conversaciones
    /\ UNCHANGED <<clientes, cartVars>>

\* SaveMessage with a try/catch of its own, as notifyHuman has one: a rejected
\* write is logged and the handler goes on
SaveMessageSwallows(h, storeOk) ==
    /\ inbound[h].pc \in {"user-msg", "bot-msg"}
    /\ LET rec == inbound[h]
           user == rec.pc = "user-msg"
           message == [ author |-> IF user THEN "user" ELSE "bot",
                        text |-> IF user THEN rec.body ELSE rec.responseMessage,
                        timestamp |-> now ]
           saved == IF storeOk
                    THEN [rec EXCEPT
                             !.writes = @ + 1,
                             !.appended = Append(@, Len(conversaciones[rec.from].mensajes) + 1)]
                    ELSE rec
       IN  /\ conversaciones' = IF storeOk
                                THEN [conversaciones EXCEPT ![rec.from].mensajes =
                                         Append(@, message)]
                                ELSE conversaciones
           /\ inbound' = [inbound EXCEPT ![h] =
                 IF ~user THEN [saved EXCEPT !.pc = "reply"]
                 ELSE IF HasFaqs(rec.faqs) THEN [saved EXCEPT !.pc = "gemini"]
                 ELSE EnterNotifyHuman(saved, NoFaqReply)]
    /\ UNCHANGED <<clientes, cartVars>>

\* saveMessageToConversation, second await: messageRef.set({author, text, timestamp}),
\* and the handler up to its next await
SaveMessage(h, storeOk) ==
    /\ inbound[h].pc \in {"user-msg", "bot-msg"}
    /\ IF storeOk
       THEN LET rec == inbound[h]
                user == rec.pc = "user-msg"
                message == [ author |-> IF user THEN "user" ELSE "bot",
                             text |-> IF user THEN rec.body ELSE rec.responseMessage,
                             timestamp |-> now ]
                saved == [rec EXCEPT
                             !.writes = @ + 1,
                             !.appended = Append(@, Len(conversaciones[rec.from].mensajes) + 1)]
            IN  /\ conversaciones' = [conversaciones EXCEPT ![rec.from].mensajes =
                                         Append(@, message)]
                /\ inbound' = [inbound EXCEPT ![h] =
                      IF ~user THEN [saved EXCEPT !.pc = "reply"]
                      ELSE IF HasFaqs(rec.faqs) THEN [saved EXCEPT !.pc = "gemini"]
                      ELSE EnterNotifyHuman(saved, NoFaqReply)]
       ELSE /\ InboundThrow(h, "store-error")
            /\ UNCHANGED conversaciones
    /\ UNCHANGED <<clientes, cartVars>>

\* the provider came back with a failure, with the sentinel or with an answer
ProviderFailed(outcome) ==
    \/ outcome.kind # "text"
    \/ Trim(outcome.text) = EmptyString

ProviderClass(outcome) ==
    IF ProviderFailed(outcome) THEN "failed"
    ELSE IF Trim(outcome.text) = Sentinel THEN "sentinel" ELSE "answer"

\* the branch on aiResponse that escalates whatever the provider said
AfterGeminiAlwaysEscalates(rec, aiResponse) ==
    EnterNotifyHuman(rec, aiResponse)

\* if (aiResponse === '[HUMAN_TAKEOVER]') { ... } else { responseMessage = aiResponse }
AfterGemini(rec, aiResponse) ==
    IF aiResponse = Sentinel
    THEN EnterNotifyHuman(rec, HandoffReply)
    ELSE [rec EXCEPT !.responseMessage = aiResponse, !.pc = "bot-doc"]

\* await generateResponseWithGemini(body, shopData.faqs), and the handler up to
\* its next await
AskGemini(h, outcome) ==
    /\ inbound[h].pc = "gemini"
    /\ LET aiResponse == generateResponseWithGemini(outcome)
           asked == [inbound[h] EXCEPT !.provider = ProviderClass(outcome),
                                       !.aiResponse = aiResponse]
       IN  inbound' = [inbound EXCEPT ![h] =
              IF aiResponse = Thrown
              THEN [asked EXCEPT !.pc = "caught", !.err = "provider-error"]
              ELSE AfterGemini(asked, aiResponse)]
    /\ UNCHANGED <<clientes, conversaciones, cartVars>>

\* a notifyHuman without its try/catch: a rejected alert ends the handler
SendAlertThrows(h, sendOk) ==
    /\ inbound[h].pc = "alert"
    /\ inbound' = [inbound EXCEPT ![h] =
          IF sendOk
          THEN [@ EXCEPT !.alert = "sent", !.pc = "bot-doc"]
          ELSE [@ EXCEPT !.alert = "failed", !.pc = "caught", !.err = "send-error"]]
    /\ UNCHANGED <<clientes, conversaciones, cartVars>>

\* notifyHuman, its await: the alert is sent, a failure is logged and swallowed
SendAlert(h, sendOk) ==
    /\ inbound[h].pc = "alert"
    /\ inbound' = [inbound EXCEPT ![h].alert = IF sendOk THEN "sent" ELSE "failed",
                                  ![h].pc = "bot-doc"]
    /\ UNCHANGED <<clientes, conversaciones, cartVars>>

\* a reply whose failure takes the stored bot message back
SendReplyRetracts(h, sendOk) ==
    /\ inbound[h].pc = "reply"
    /\ inbound' = [inbound EXCEPT ![h] =
          IF sendOk
          THEN [@ EXCEPT !.reply = "sent", !.pc = "done"]
          ELSE [@ EXCEPT !.reply = "failed", !.pc = "caught", !.err = "send-error"]]
    /\ conversaciones' =
          IF sendOk THEN conversaciones
          ELSE [conversaciones EXCEPT ![inbound[h].from].mensajes =
                   SubSeq(@, 1, Len(@) - 1)]
    /\ UNCHANGED <<clientes, cartVars>>

\* await twilioClient.messages.create({from: shopWhatsappNumber, to: from, ...})
SendReply(h, sendOk) ==
    /\ inbound[h].pc = "reply"
    /\ inbound' = [inbound EXCEPT ![h] =
          IF sendOk
          THEN [@ EXCEPT !.reply = "sent", !.pc = "done"]
          ELSE [@ EXCEPT !.reply = "failed", !.pc = "caught", !.err = "send-error"]]
    /\ UNCHANGED <<clientes, conversaciones, cartVars>>

----------------------------------------------------------------------------
(* Specification of the conversation engine *)

\* Two customers write to two tenants; the first tenant is configured in every
\* way, the second one has FAQs and an alert phone.
InitConv ==
    /\ clientes \in { c \in [TenantIds -> ShopConfigs] :
                        /\ \A t \in TenantIds : c[t].apiKey = ApiKey(t)
                        /\ c["t2"] = TenantDoc("t2") }
    /\ carritosAbandonados = << >>
    /\ now = 0
    /\ sweeps = << >>
    /\ marks = << >>
    /\ ingests = << >>
    /\ conversaciones = [c \in Froms |-> NoConversation]
    /\ inbound = [h \in InboundIds |-> InboundIdle]

Inbounds ==
    \/ \E h \in DOMAIN inbound, from \in Froms, body \in Bodies, to \in Tos, ok \in BOOLEAN :
          InboundLookup(h, from, body, to, ok)
    \/ \E h \in DOMAIN inbound, ok \in BOOLEAN : SaveConversation(h, ok)
    \/ \E h \in DOMAIN inbound, ok \in BOOLEAN : SaveMessage(h, ok)
    \/ \E h \in DOMAIN inbound, o \in GeminiOutcomes : AskGemini(h, o)
    \/ \E h \in DOMAIN inbound, ok \in BOOLEAN : SendAlert(h, ok)
    \/ \E h \in DOMAIN inbound, ok \in BOOLEAN : SendReply(h, ok)

NextConv == Inbounds

SpecConv == InitConv /\ [][NextConv]_vars

----------------------------------------------------------------------------
(* Specification of the carrito-abandonado requests, step by step *)

IngestIds == {"i1", "i2"}

IngestSteps(keys, cartBodies) ==
    \/ \E i \in DOMAIN ingests, k \in keys, b \in cartBodies, ok \in BOOLEAN :
          IngestRequest(i, k, b, ok)
    \/ \E i \in DOMAIN ingests, ok \in BOOLEAN : IngestAdd(i, ok)

\* Two concurrent carrito-abandonado requests of every kind, while time passes
\* and tenants are removed.
InitIngest ==
    /\ InitStores
    /\ sweeps = << >>
    /\ marks = << >>
    /\ ingests = [i \in IngestIds |-> IngestIdle]

NextIngest ==
    \/ IngestSteps(ApiKeyInputs, CartBodies)
    \/ Tick
    \/ \E t \in TenantIds : TenantRemoved(t)

SpecIngest == InitIngest /\ [][NextIngest]_vars

----------------------------------------------------------------------------
(* Specification of the three webhooks side by side *)

\* One request of each webhook: a carrito-abandonado, a pedido-creado and a
\* whatsapp-webhook request run concurrently.
InitWebhooks ==
    /\ clientes = [t \in TenantIds |-> TenantDoc(t)]
    /\ carritosAbandonados = << >>
    /\ now = 0
    /\ sweeps = << >>
    /\ marks = [m \in {"m1"} |-> MarkIdle]
    /\ ingests = [i \in {"i1"} |-> IngestIdle]
    /\ conversaciones = [c \in Froms |-> NoConversation]
    /\ inbound = [h \in {"h1"} |-> InboundIdle]

NextWebhooks ==
    \/ IngestSteps(ApiKeyInputs, CartBodies)
    \/ Orders(ApiKeyInputs, OrderBodies)
    \/ Inbounds

SpecWebhooks == InitWebhooks /\ [][NextWebhooks]_vars

----------------------------------------------------------------------------
(* Specification of the sends: a cron run and a whatsapp-webhook request *)

\* One cron run at a time over the carts of one customer of tenant t1, and one
\* message of that customer to tenant t1.
InitSends ==
    /\ clientes = [t \in TenantIds |-> TenantDoc(t)]
    /\ carritosAbandonados = << >>
    /\ now = 0
    /\ sweeps = [s \in {"s1"} |-> SweepIdle]
    /\ marks = << >>
    /\ ingests = << >>
    /\ conversaciones = [c \in Froms |-> NoConversation]
    /\ inbound = [h \in {"h1"} |-> InboundIdle]

NextSends ==
    \/ Ingests({ApiKey("t1")}, RaceCartBodies)
    \/ CronRuns
    \/ Tick
    \/ Inbounds

SpecSends == InitSends /\ [][NextSends]_vars

----------------------------------------------------------------------------
(* Vocabulary of the properties *)

Running == {"get", "send", "update"}

Carts == DOMAIN carritosAbandonados

TenantExists(k) == clientes[carritosAbandonados[k].tiendaId].exists

Pending(k) == carritosAbandonados[k].estadoMensaje = "pendiente"

ReminderSent(k) == carritosAbandonados[k].estadoMensaje = "recordatorio_enviado"

Overdue(k) == carritosAbandonados[k].timestamp + ThresholdHours <= now

Range(seq) == { seq[j] : j \in DOMAIN seq }

\* the documents of run s that the loop has not reached yet
Remaining(s) == { sweeps[s].docs[j] : j \in (sweeps[s].i + 1)..Len(sweeps[s].docs) }

\* the loop of run s ends in this step
LoopEnds(s) == sweeps[s].pc \in Running /\ sweeps'[s].pc \notin Running

----------------------------------------------------------------------------
(* C1 *)

\* C1: isolation of the sweep. When the send for one cart has been awaited and the
\* loop of that run ends, no selected cart whose tenant exists is left without its
\* send attempt: a rejected send must not end the run before the remaining carts.
C1_SweepIsolation ==
    [][ \A s \in DOMAIN sweeps :
          (sweeps[s].pc = "send" /\ LoopEnds(s))
             => \A k \in Remaining(s) : ~TenantExists(k) ]_vars

----------------------------------------------------------------------------
(* C2 *)

\* C2: messageState only moves pendiente -> recordatorio_enviado. In every step
\* (ingest, order-created, overlapping cron runs) a cart that is
\* recordatorio_enviado is still in the store and still recordatorio_enviado.
C2_MessageStateMonotonic ==
    [][ \A k \in Carts :
          ReminderSent(k)
             => /\ k \in DOMAIN carritosAbandonados'
                /\ carritosAbandonados'[k].estadoMensaje = "recordatorio_enviado" ]_vars

\* a reminded and recovered cart that an overlapping run is about to update again
C2_Witness ==
    \E s \in DOMAIN sweeps :
       /\ sweeps[s].pc = "update"
       /\ ReminderSent(sweeps[s].docs[sweeps[s].i])
       /\ carritosAbandonados[sweeps[s].docs[sweeps[s].i]].recuperado

----------------------------------------------------------------------------
(* C3 *)

\* C3: recovered only moves false -> true. In every step (concurrent
\* order-created requests and cron runs included) a cart with recuperado = true is
\* still in the store with recuperado = true.
C3_RecoveredMonotonic ==
    [][ \A k \in Carts :
          carritosAbandonados[k].recuperado
             => /\ k \in DOMAIN carritosAbandonados'
                /\ carritosAbandonados'[k].recuperado ]_vars

\* a recovered cart that a concurrent request and a cron run are both about to write
C3_Witness ==
    \E m \in DOMAIN marks, s \in DOMAIN sweeps :
       /\ marks[m].pc = "update"
       /\ carritosAbandonados[marks[m].doc].recuperado
       /\ sweeps[s].pc = "update"
       /\ sweeps[s].docs[sweeps[s].i] = marks[m].doc

----------------------------------------------------------------------------
(* C4 *)

\* the (tenant, canonical customer address) pairs a pedido-creado request can name
MarkKeys == { <<t, FormatPhone(p)>> : t \in TenantIds, p \in RawPhones }

\* the carts of `store` with recuperado = false for tenant t and address f
Unrecovered(store, t, f) ==
    { k \in DOMAIN store :
        store[k].tiendaId = t /\ store[k].cliente = f /\ ~store[k].recuperado }

\* the second of two consecutive calls changes nothing, whatever the two calls pick
TwiceIsOnce(store, t, f) ==
    \A once \in MarkOrderRecovered(store, t, f) :
       \A twice \in MarkOrderRecovered(once, t, f) : twice = once

\* C4 as claimed: for any store state, calling markOrderRecovered twice in sequence
\* with the same tenant and phone leaves the store as calling it once does.
C4_IdempotentAnyStore ==
    \A key \in MarkKeys : TwiceIsOnce(carritosAbandonados, key[1], key[2])

\* C4 as amended: the same, for a store in which at most one cart with
\* recuperado = false matches the tenant and the canonical phone.
C4_IdempotentSingleMatch ==
    \A key \in MarkKeys :
       Cardinality(Unrecovered(carritosAbandonados, key[1], key[2])) <= 1
          => TwiceIsOnce(carritosAbandonados, key[1], key[2])

\* a request has recovered a customer's only cart while another customer of the
\* same tenant still has an unrecovered one
C4_Witness ==
    \E k \in Carts, j \in Carts :
       /\ carritosAbandonados[k].recuperado
       /\ ~carritosAbandonados[j].recuperado
       /\ carritosAbandonados[j].tiendaId = carritosAbandonados[k].tiendaId
       /\ carritosAbandonados[j].cliente # carritosAbandonados[k].cliente
       /\ \E m \in DOMAIN marks : marks[m].pc = "return"

----------------------------------------------------------------------------
(* C5 *)

----------------------------------------------------------------------------
(* C6 *)

\* C6: a run sends reminders only for carts that were pendiente and at least one
\* threshold old when it queried the store. The snapshot taken by the query holds
\* only such carts, the run keeps that snapshot until its loop ends, and the cart
\* it handles is always one of the snapshot; so a cart that is already
\* recordatorio_enviado when a run starts gets nothing from that run.
C6_OnlySelectedCarts ==
    [][ \A s \in DOMAIN sweeps :
          /\ (sweeps[s].pc = "idle" /\ sweeps'[s].pc \in Running)
                => \A k \in Range(sweeps'[s].docs) :
                      k \in Carts /\ Pending(k) /\ Overdue(k)
          /\ (sweeps[s].pc \in Running /\ sweeps'[s].pc \in Running)
                => sweeps'[s].docs = sweeps[s].docs
          /\ sweeps'[s].pc \in Running
                => sweeps'[s].i \in DOMAIN sweeps'[s].docs ]_vars

\* a run awaits its send for one cart while an older cart, reminded by an earlier
\* run, is not in its snapshot
C6_Witness ==
    \E s \in DOMAIN sweeps :
       /\ sweeps[s].pc = "send"
       /\ \E k \in Carts :
             /\ ReminderSent(k)
             /\ Overdue(k)
             /\ k \notin Range(sweeps[s].docs)

----------------------------------------------------------------------------
(* C7 *)

\* run s passes over the cart it handles with `continue`
Skips(s) ==
    /\ sweeps[s].pc = "get"
    /\ sweeps'[s] # sweeps[s]
    /\ sweeps'[s].pc \in {"get", "idle"}

\* C7: a selected cart whose tenant is missing is skipped (the step that passes it
\* over sends nothing and writes no cart), and every other cart of the same run is
\* still processed: when the loop of a run that skipped a cart ends after a send,
\* no selected cart whose tenant exists is left without its send attempt.
C7_MissingTenantSkipped ==
    [][ \A s \in DOMAIN sweeps :
          /\ Skips(s)
                => /\ UNCHANGED carritosAbandonados
                   /\ ~TenantExists(sweeps[s].docs[sweeps[s].i])
                   /\ Remaining(s) # {}
                         => /\ sweeps'[s].pc = "get"
                            /\ sweeps'[s].i = sweeps[s].i + 1
          /\ (sweeps[s].pc = "send" /\ LoopEnds(s) /\ sweeps[s].skipped # {})
                => \A k \in Remaining(s) : ~TenantExists(k) ]_vars

----------------------------------------------------------------------------
(* C8 *)

\* run s handles cart k in this step
Handles(s, k) == sweeps[s].pc \in Running /\ sweeps[s].docs[sweeps[s].i] = k

\* the query of a run selects every cart that is pendiente and overdue
SelectsEveryPendingOverdue(s) ==
    (sweeps[s].pc = "idle" /\ sweeps'[s].pc \in Running)
       => \A k \in Carts : Pending(k) /\ Overdue(k) => k \in Range(sweeps'[s].docs)

\* a rejected send leaves the store as it is
FailedSendWritesNothing(s) ==
    (sweeps[s].pc = "send" /\ sweeps'[s].pc = "catch")
       => UNCHANGED carritosAbandonados

\* C8 as claimed: once the send for a cart has succeeded, the cart is
\* recordatorio_enviado when the run moves on; a failed send leaves the cart as it
\* is, and the next run selects every cart that is still pendiente and overdue.
C8_SendThenState ==
    [][ \A s \in DOMAIN sweeps :
          /\ (sweeps[s].pc = "update" /\ sweeps'[s] # sweeps[s])
                => carritosAbandonados'[sweeps[s].docs[sweeps[s].i]].estadoMensaje
                      = "recordatorio_enviado"
          /\ FailedSendWritesNothing(s)
          /\ SelectsEveryPendingOverdue(s) ]_vars

\* C8 as amended: once the send for a cart has succeeded and the update that
\* follows it resolves, the cart is recordatorio_enviado; if the update rejects the
\* run ends in its catch block and the store is as it was. A failed send leaves
\* the cart as it is, and the next run selects every cart that is still pendiente
\* and overdue.
C8_SendUpdateThenState ==
    [][ \A s \in DOMAIN sweeps :
          /\ (sweeps[s].pc = "update" /\ sweeps'[s] # sweeps[s])
                => \/ carritosAbandonados'[sweeps[s].docs[sweeps[s].i]].estadoMensaje
                         = "recordatorio_enviado"
                   \/ sweeps'[s].pc = "catch" /\ UNCHANGED carritosAbandonados
          /\ FailedSendWritesNothing(s)
          /\ SelectsEveryPendingOverdue(s) ]_vars

\* a run is in its catch block after a rejected send; one cart was reminded
\* earlier, another is still pendiente and overdue
C8_Witness ==
    \E s \in DOMAIN sweeps :
       /\ sweeps[s].pc = "catch"
       /\ sweeps[s].err = "send-error"
       /\ \E k \in Carts : ReminderSent(k)
       /\ \E k \in Carts : Pending(k) /\ Overdue(k) /\ TenantExists(k)

----------------------------------------------------------------------------
(* Vocabulary of the conversation properties *)

Handlers == DOMAIN inbound

\* the handler is over: its last statement ran or its catch block did
Ended(h) == inbound[h].pc \in {"done", "caught"}

\* the FAQ corpus of the tenant is absent or blank
FaqsAbsentOrBlank(faqs) == faqs = Undefined \/ Trim(faqs) = EmptyString

\* the messages that handler h appended to the conversation, in order
AppendedBy(h) ==
    [ i \in 1..Len(inbound[h].appended) |->
        LET m == conversaciones[inbound[h].from].mensajes[inbound[h].appended[i]]
        IN  <<m.author, m.text>> ]

\* the customer message first and the bot message second
CustomerThenBot(h, text) ==
    /\ AppendedBy(h) = << <<"user", inbound[h].body>>, <<"bot", text>> >>
    /\ inbound[h].appended[1] < inbound[h].appended[2]

\* notifyHuman was called; with an alert phone its send was attempted
NotificationAttempted(h) ==
    /\ inbound[h].notified
    /\ ~FalsyString(inbound[h].telefonoAlertas) => inbound[h].alert \in {"sent", "failed"}

\* the text was handed to Twilio as the reply to the customer
RepliedWith(h, text) ==
    /\ inbound[h].responseMessage = text
    /\ inbound[h].reply \in {"sent", "failed"}

\* what C9 promises of a handler
NoFaqOutcome(h) ==
    /\ NotificationAttempted(h)
    /\ RepliedWith(h, NoFaqReply)
    /\ CustomerThenBot(h, NoFaqReply)

EscalationOutcome(h) ==
    /\ inbound[h].err # "provider-error"
    /\ inbound[h].responseMessage = HandoffReply
    /\ inbound[h].notified
    /\ inbound[h].pc # "alert" => NotificationAttempted(h)
    /\ Len(inbound[h].appended) = 2 => CustomerThenBot(h, HandoffReply)
    /\ (Ended(h) /\ inbound[h].err # "store-error")
          => CustomerThenBot(h, HandoffReply) /\ RepliedWith(h, HandoffReply)

\* C10: every way the provider fails (the fetch rejects, the status is not 2xx,
\* the payload is not JSON, has no candidate, no text or an empty text) gives the
\* handler the value that the explicit sentinel gives it, so that the handler
\* answers with the handoff reply, calls notifyHuman and appends the same two
\* messages; no failure of the provider takes the handler to its catch block.
C10_ProviderFailureIsSentinel ==
    /\ \A o \in GeminiOutcomes :
          ProviderFailed(o) =>
             generateResponseWithGemini(o)
                = generateResponseWithGemini([kind |-> "text", text |-> Sentinel])
    /\ \A h \in Handlers :
          inbound[h].provider \in {"failed", "sentinel"} => EscalationOutcome(h)

\* one handler is done after a failure of the provider, another after the sentinel
C10_Witness ==
    \E h, g \in Handlers :
       /\ inbound[h].pc = "done" /\ inbound[h].provider = "failed"
       /\ inbound[g].pc = "done" /\ inbound[g].provider = "sentinel"
       /\ AppendedBy(h) = AppendedBy(g)

----------------------------------------------------------------------------
(* C11 *)

\* no escalation: notifyHuman was not called and no alert went to Twilio
NoNotification(h) == ~inbound[h].notified /\ inbound[h].alert = "none"

\* the reply and the bot message are the provider's text, after the customer's
\* message
AnsweredOutcome(h) ==
    /\ RepliedWith(h, inbound[h].aiResponse)
    /\ CustomerThenBot(h, inbound[h].aiResponse)

----------------------------------------------------------------------------
(* C12 *)

\* the handler is past the save of the customer's message: the provider was asked,
\* notifyHuman was called or the bot message and the reply are on their way
PastCustomerSave(rec) ==
    \/ rec.pc \in {"gemini", "alert", "bot-doc", "bot-msg", "reply", "done"}
    \/ rec.provider # "none"
    \/ rec.notified
    \/ rec.alert # "none"
    \/ rec.reply # "none"

\* the first message that handler h appended is the customer's
CustomerMessageStored(h) ==
    /\ Len(inbound[h].appended) >= 1
    /\ AppendedBy(h)[1] = <<"user", inbound[h].body>>

IsPrefix(a, b) == Len(a) <= Len(b) /\ a = SubSeq(b, 1, Len(a))

\* C12: no step, failed or not, removes or changes a message of a conversation,
\* and the customer's message is in the conversation before the provider is
\* asked, before notifyHuman is called and before a reply is sent.
C12_CustomerMessageFirst ==
    [][ /\ \A c \in DOMAIN conversaciones :
             IsPrefix(conversaciones[c].mensajes, conversaciones'[c].mensajes)
        /\ \A h \in Handlers :
             PastCustomerSave(inbound'[h]) => CustomerMessageStored(h)' ]_vars

\* the handler ended in its catch block after a rejected reply, the customer's
\* message is stored
C12_Witness ==
    \E h \in Handlers :
       /\ inbound[h].pc = "caught"
       /\ inbound[h].err = "send-error"
       /\ inbound[h].provider # "none"
       /\ CustomerMessageStored(h)

----------------------------------------------------------------------------
(* C13 *)

\* C13: the step in which the send of the reply is rejected changes no
\* conversation; the handler is then in its catch block, where it ends, and the
\* customer's message and the bot message it appended are in the store as they
\* were appended.
C13_ReplyFailureKeepsEntries ==
    [][ \A h \in Handlers :
          /\ (inbound[h].pc = "reply" /\ inbound'[h].reply = "failed")
                => UNCHANGED conversaciones
          /\ inbound'[h].reply = "failed"
                => /\ inbound'[h].pc = "caught"
                   /\ inbound'[h].err = "send-error"
                   /\ CustomerThenBot(h, inbound[h].responseMessage)' ]_vars

\* the reply of one handler was rejected and the other handler has since appended
\* to the same conversation
C13_Witness ==
    \E h, g \in Handlers :
       /\ inbound[h].reply = "failed"
       /\ inbound[g].from = inbound[h].from
       /\ Len(inbound[g].appended) >= 1
       /\ inbound[g].appended[1] > inbound[h].appended[2]

----------------------------------------------------------------------------
(* C14 *)

\* the bot message is appended and the reply is handed to Twilio
BotMessageAndReply(h) ==
    /\ CustomerThenBot(h, inbound[h].responseMessage)
    /\ RepliedWith(h, inbound[h].responseMessage)

\* C14: a rejected alert is swallowed. The step in which the alert is sent leaves
\* the handler at the save of the bot message, without an error and with no
\* conversation changed, whether the send resolves or rejects: but for the
\* recorded outcome of the alert the next state is the one a sent alert gives, so
\* the bot message and the reply follow exactly as after a sent alert. A handler
\* whose alert was rejected never ends in its catch block for that rejection, and
\* its reply goes out after its bot message is appended.
C14_AlertFailureSwallowed ==
    [][ \A h \in Handlers :
          /\ (inbound[h].pc = "alert" /\ inbound'[h] # inbound[h])
                => /\ UNCHANGED conversaciones
                   /\ inbound'[h].alert \in {"sent", "failed"}
                   /\ [inbound'[h] EXCEPT !.alert = "sent"]
                         = [inbound[h] EXCEPT !.alert = "sent", !.pc = "bot-doc"]
          /\ inbound'[h].alert = "failed"
                => /\ inbound'[h].pc = "caught"
                         => (inbound'[h].err = "store-error" \/ inbound'[h].reply = "failed")
                   /\ (inbound'[h].reply # "none") => BotMessageAndReply(h)' ]_vars

\* a handler is done, its alert was rejected and its reply was sent
C14_Witness ==
    \E h \in Handlers :
       /\ inbound[h].pc = "done"
       /\ inbound[h].alert = "failed"
       /\ inbound[h].reply = "sent"
       /\ Len(inbound[h].appended) = 2

----------------------------------------------------------------------------
(* C15 *)

\* the handler is for a tenant without telefonoAlertas
NoAlertPhone(rec) == rec.shopId # "" /\ FalsyString(rec.telefonoAlertas)

\* C15: when notifyHuman is called for a tenant without telefonoAlertas it only
\* logs: no alert goes to Twilio, then or later, the step raises no error and
\* leaves the handler at the save of the bot message, and the reply goes out
\* after the bot message is appended.
C15_NoAlertPhoneIsNoOp ==
    [][ \A h \in Handlers :
          NoAlertPhone(inbound'[h])
             => /\ inbound'[h].alert = "none"
                /\ inbound'[h].pc # "alert"
                /\ (~inbound[h].notified /\ inbound'[h].notified)
                      => inbound'[h].pc = "bot-doc" /\ inbound'[h].err = "none"
                /\ (inbound'[h].pc = "caught" /\ inbound'[h].notified)
                      => (inbound'[h].err = "store-error" \/ inbound'[h].reply = "failed")
                /\ (inbound'[h].reply # "none") => BotMessageAndReply(h)' ]_vars

\* a handler is done after the provider failed for a tenant without an alert
\* phone: notifyHuman was called, the reply was sent
C15_Witness ==
    \E h \in Handlers :
       /\ NoAlertPhone(inbound[h])
       /\ inbound[h].pc = "done"
       /\ inbound[h].provider = "failed"
       /\ inbound[h].notified
       /\ inbound[h].responseMessage = HandoffReply
       /\ inbound[h].reply = "sent"

----------------------------------------------------------------------------
(* C16 *)

\* a field of the request body is missing: not sent, or sent as an empty string
MissingField(b) ==
    \/ b.clienteTelefono \in {Undefined, EmptyString}
    \/ b.urlRecuperacion \in {Undefined, EmptyString}
    \/ b.productos = Undefined

\* exactly one cart is added to the store, for tenant t and the customer of b,
\* with recuperado = false and estadoMensaje = pendiente
OneCartAdded(t, b) ==
    /\ Len(carritosAbandonados') = Len(carritosAbandonados) + 1
    /\ SubSeq(carritosAbandonados', 1, Len(carritosAbandonados)) = carritosAbandonados
    /\ LET cart == carritosAbandonados'[Len(carritosAbandonados')]
       IN  /\ cart.tiendaId = t
           /\ cart.cliente = FormatPhone(b.clienteTelefono)
           /\ cart.urlRecuperacion = b.urlRecuperacion
           /\ cart.productos = b.productos
           /\ cart.recuperado = FALSE
           /\ cart.estadoMensaje = "pendiente"

\* the step ends the request of slot i
IngestEnds(i) ==
    /\ ingests[i].pc \in {"idle", "add"}
    /\ ingests'[i].pc \in {"return", "catch", "done"}

\* C16 as claimed: a carrito-abandonado request that reaches the handler with a
\* missing field ends with the store unchanged; any other one ends with exactly
\* one cart added, with recuperado = false and estadoMensaje = pendiente, whatever
\* carts the customer already has; until it ends the request changes no cart.
C16_IngestValidates ==
    [][ \A i \in DOMAIN ingests :
          ingests'[i] # ingests[i]
             => IF ~IngestEnds(i) \/ MissingField(ingests'[i].body)
                THEN UNCHANGED carritosAbandonados
                ELSE OneCartAdded(ingests'[i].tiendaId, ingests'[i].body) ]_vars

\* C16 as amended: the same, provided the add() of the cart resolves; when it
\* rejects the request ends in its catch block with the store unchanged.
C16_IngestValidatesUnlessStoreFails ==
    [][ \A i \in DOMAIN ingests :
          ingests'[i] # ingests[i]
             => IF ~IngestEnds(i) \/ MissingField(ingests'[i].body)
                   \/ ingests'[i].pc = "catch"
                THEN UNCHANGED carritosAbandonados
                ELSE OneCartAdded(ingests'[i].tiendaId, ingests'[i].body) ]_vars

\* a request has added a second cart for a customer whose first cart of the same
\* tenant is pendiente and not recovered
C16_Witness ==
    \E k, j \in Carts :
       /\ k < j
       /\ \E i \in DOMAIN ingests : ingests[i].doc = j
       /\ carritosAbandonados[k].tiendaId = carritosAbandonados[j].tiendaId
       /\ carritosAbandonados[k].cliente = carritosAbandonados[j].cliente
       /\ Pending(k) /\ Pending(j)
       /\ ~carritosAbandonados[k].recuperado /\ ~carritosAbandonados[j].recuperado

----------------------------------------------------------------------------
(* C17 *)

\* every request that reached its handler has the handler's acknowledgment,
\* wherever the handler is
AllAcknowledged ==
    /\ \A i \in DOMAIN ingests : ingests[i].pc # "idle" => ingests[i].res = Recibido
    /\ \A m \in DOMAIN marks : marks[m].pc # "idle" => marks[m].res = Recibido
    /\ \A h \in DOMAIN inbound : inbound[h].pc # "idle" => inbound[h].res = EventReceived

\* the step is one of a request that was acknowledged before the step
StepOfAcknowledged ==
    \/ \E i \in DOMAIN ingests : ingests'[i] # ingests[i] /\ ingests[i].res = Recibido
    \/ \E m \in DOMAIN marks : marks'[m] # marks[m] /\ marks[m].res = Recibido
    \/ \E h \in DOMAIN inbound : inbound'[h] # inbound[h] /\ inbound[h].res = EventReceived

\* the step writes to a store or hands a message to Twilio
WritesOrSends ==
    \/ carritosAbandonados' # carritosAbandonados
    \/ conversaciones' # conversaciones
    \/ \E h \in DOMAIN inbound :
          inbound'[h].alert # inbound[h].alert \/ inbound'[h].reply # inbound[h].reply

\* C17: in the three webhook handlers the acknowledgment precedes the first store
\* write and the first send of the request, and it is the same 200 whether the
\* request is turned down by the validation, fails later or succeeds.
C17_AckBeforeSideEffects ==
    [][ /\ AllAcknowledged'
        /\ WritesOrSends => StepOfAcknowledged ]_vars

\* the three acknowledged requests did nothing: the add of the cart was rejected,
\* the order had no phone, the tenant lookup of the message was rejected
C17_Witness ==
    /\ \E i \in DOMAIN ingests : ingests[i].pc = "catch" /\ ingests[i].res = Recibido
    /\ \E m \in DOMAIN marks : marks[m].pc = "invalid" /\ marks[m].res = Recibido
    /\ \E h \in DOMAIN inbound :
          /\ inbound[h].pc = "caught" /\ inbound[h].shopId = ""
          /\ inbound[h].res = EventReceived
    /\ carritosAbandonados = << >>

----------------------------------------------------------------------------
(* C18 *)

\* the store writes that each operation has made: at most the add of a
\* carrito-abandonado request, at most the update of a pedido-creado request and
\* of a cart in a cron run, and the writes counted by a whatsapp-webhook request
WritesOfIngest(i) == IF ingests[i].doc # 0 THEN 1 ELSE 0
WritesOfInbound(h) == inbound[h].writes

\* C18: no operation makes more than one store write, so that a rejected write
\* never leaves an operation with some of its writes applied.
C18_AtMostOneWrite ==
    /\ \A i \in DOMAIN ingests : WritesOfIngest(i) <= 1
    /\ \A h \in DOMAIN inbound :
          /\ WritesOfInbound(h) <= 1
          /\ inbound[h].err = "store-error" => WritesOfInbound(h) = 0

----------------------------------------------------------------------------
(* C19 *)

\* C19: a conversation belongs to one tenant and one customer. A step of a
\* handler that writes to an existing conversation is a step for the tenant of
\* that conversation, and it leaves the tenant of the conversation as it is: the
\* messages of one customer to two tenants are never in one conversation.
C19_ConversationPerTenant ==
    [][ \A h \in DOMAIN inbound, c \in DOMAIN conversaciones :
          ( /\ inbound'[h] # inbound[h]
            /\ conversaciones'[c] # conversaciones[c]
            /\ conversaciones[c].exists )
          => /\ conversaciones[c].tiendaId = inbound[h].shopId
             /\ conversaciones'[c].tiendaId = conversaciones[c].tiendaId ]_vars

----------------------------------------------------------------------------
(* C20 *)

\* cart k is as it was, but for the named field
OnlyRecuperadoChanges(k) ==
    carritosAbandonados'[k] = [carritosAbandonados[k] EXCEPT !.recuperado = TRUE]

SameButEstadoMensaje(k) ==
    [carritosAbandonados'[k] EXCEPT !.estadoMensaje = carritosAbandonados[k].estadoMensaje]
       = carritosAbandonados[k]

\* the query of request m found a cart of its tenant and customer with
\* recuperado = false
MarkFindsUnrecovered(m) ==
    (marks[m].pc = "idle" /\ marks'[m].pc = "update")
       => LET cart == carritosAbandonados[marks'[m].doc]
          IN  /\ cart.tiendaId = marks'[m].tiendaId
              /\ cart.cliente = marks'[m].cliente
              /\ ~cart.recuperado

\* the update of request m sets recuperado on the cart it found, on that cart of
\* its tenant and customer only, and changes nothing else
MarkWritesOneCart(m) ==
    (marks[m].pc = "update" /\ marks'[m] # marks[m])
       => \/ UNCHANGED carritosAbandonados
          \/ /\ carritosAbandonados[marks[m].doc].tiendaId = marks[m].tiendaId
             /\ carritosAbandonados[marks[m].doc].cliente = marks[m].cliente
             /\ carritosAbandonados'[marks[m].doc].recuperado
             /\ DOMAIN carritosAbandonados' = Carts
             /\ \A k \in Carts :
                   IF k = marks[m].doc
                   THEN OnlyRecuperadoChanges(k)
                   ELSE carritosAbandonados'[k] = carritosAbandonados[k]

\* a step of a cron run changes no field of a cart but estadoMensaje
SweepWritesEstadoMensajeOnly(s) ==
    sweeps'[s] # sweeps[s]
       => /\ DOMAIN carritosAbandonados' = Carts
          /\ \A k \in Carts : SameButEstadoMensaje(k)

\* estadoMensaje of a cart changes in the update of a cron run only
EstadoMensajeBySweepOnly ==
    (\E k \in Carts :
        carritosAbandonados'[k].estadoMensaje # carritosAbandonados[k].estadoMensaje)
       => \E s \in DOMAIN sweeps : sweeps[s].pc = "update" /\ sweeps'[s] # sweeps[s]

\* C20: the frame of the cart operations. A pedido-creado request that finds a
\* match sets recuperado = true on exactly one cart, of its tenant and its
\* canonical phone, that had recuperado = false when it was found, and changes no
\* other cart and no estadoMensaje; a cron run changes estadoMensaje only, never
\* recuperado; estadoMensaje is changed by cron runs only.
C20_CartFrame ==
    [][ /\ \A m \in DOMAIN marks : MarkFindsUnrecovered(m) /\ MarkWritesOneCart(m)
        /\ \A s \in DOMAIN sweeps : SweepWritesEstadoMensajeOnly(s)
        /\ EstadoMensajeBySweepOnly ]_vars

\* a request has recovered one of two carts of a customer, the other is not
\* recovered, and a cron run has reminded one of them
C20_Witness ==
    /\ \E k, j \in Carts :
          /\ carritosAbandonados[k].recuperado
          /\ ~carritosAbandonados[j].recuperado
          /\ carritosAbandonados[k].cliente = carritosAbandonados[j].cliente
    /\ \E k \in Carts : ReminderSent(k)

----------------------------------------------------------------------------
(* C21 *)

\* the documents of a run are distinct
Distinct(seq) == \A a, b \in DOMAIN seq : seq[a] = seq[b] => a = b

\* Within a run the loop only moves forward: the send for docs[i] is awaited once,
\* after the tenant of docs[i] was read, and whatever its outcome the run goes on
\* to the update of docs[i] or ends; the loop comes to a document once.
SweepSendsOncePerCart(s) ==
    /\ Distinct(sweeps'[s].docs)
    /\ (sweeps[s].pc \in Running /\ sweeps'[s].pc \in Running)
          => sweeps'[s].docs = sweeps[s].docs
    /\ (sweeps'[s] # sweeps[s] /\ sweeps'[s].pc = "get")
          => sweeps'[s].i = sweeps[s].i + 1
    /\ (sweeps'[s] # sweeps[s] /\ sweeps'[s].pc = "send")
          => sweeps[s].pc = "get" /\ sweeps'[s].i = sweeps[s].i
    /\ (sweeps'[s] # sweeps[s] /\ sweeps[s].pc = "send")
          => \/ sweeps'[s].pc = "update" /\ sweeps'[s].i = sweeps[s].i
             \/ sweeps'[s].pc = "catch"

\* The alert and the reply of a request are each handed to Twilio in one step;
\* once one of them was attempted, sent or rejected, it is not attempted again.
InboundSendsOnce(h) ==
    /\ inbound[h].alert # "none"
          => inbound'[h].alert = inbound[h].alert /\ inbound'[h].pc # "alert"
    /\ inbound[h].reply # "none"
          => inbound'[h].reply = inbound[h].reply /\ inbound'[h].pc # "reply"
    /\ inbound'[h].alert # inbound[h].alert => inbound[h].pc = "alert"
    /\ inbound'[h].reply # inbound[h].reply => inbound[h].pc = "reply"

\* C21: nothing is retried inside one run. A cron run makes at most one send
\* attempt per selected cart, and a whatsapp-webhook request makes at most one
\* attempt to send the reply and at most one to send the alert, whether or not
\* the attempts fail.
C21_NoRetry ==
    [][ /\ \A s \in DOMAIN sweeps : SweepSendsOncePerCart(s)
        /\ \A h \in DOMAIN inbound : InboundSendsOnce(h) ]_vars

\* the send of a cron run was rejected with the cart still pendiente, and the
\* alert and the reply of a request were both rejected
C21_Witness ==
    /\ \E s \in DOMAIN sweeps : sweeps[s].pc = "catch" /\ sweeps[s].err = "send-error"
    /\ \E k \in Carts : Pending(k) /\ Overdue(k)
    /\ \E h \in DOMAIN inbound : inbound[h].alert = "failed" /\ inbound[h].reply = "failed"

----------------------------------------------------------------------------
(* C22 *)

\* the digit sequence of a string
DigitsOf(str) == SelectSeq(str, IsDigit)

\* ways of writing a phone number in a request body
Spellings ==
    RawPhones \cup { <<"+", "6", "1">>, <<"6", "-", "1">>, <<"(", "6", ")", "1">>,
                     <<"7">>, <<"7", " ">>, <<"1", "6">> }

\* the carts stored by a carrito-abandonado request and still unrecovered
IngestedUnrecovered ==
    { i \in DOMAIN ingests : /\ ingests[i].pc = "done"
                             /\ ~carritosAbandonados[ingests[i].doc].recuperado }

\* C22: carrito-abandonado and pedido-creado normalise the raw phone with the
\* same function (every non-digit character dropped, "whatsapp:+" prepended);
\* the function keeps the digit sequence and is idempotent; hence an unrecovered
\* cart stored from raw phone P is among the matches of the pedido-creado query
\* for the same tenant and any raw phone P' with the same digit sequence as P.
C22_SameDigitsMatch ==
    /\ \A i \in IngestedUnrecovered : \A p \in Spellings :
          DigitsOf(p) = DigitsOf(ingests[i].body.clienteTelefono)
             => ingests[i].doc \in MarkMatches(carritosAbandonados, ingests[i].tiendaId,
                                               FormatPhone(p))
    /\ \A i \in DOMAIN ingests : ingests[i].pc = "done" =>
          carritosAbandonados[ingests[i].doc].cliente
             = FormatPhone(ingests[i].body.clienteTelefono)
    /\ \A p \in Spellings : /\ DigitsOf(FormatPhone(p)) = DigitsOf(p)
                            /\ FormatPhone(FormatPhone(p)) = FormatPhone(p)
    /\ \A m \in DOMAIN marks : marks[m].pc = "update" =>
          \E p \in Spellings : marks[m].cliente = FormatPhone(p)

\* a cart stored from "6 1" was found by a pedido-creado request, and another
\* spelling of the same digits finds it too
C22_Witness ==
    \E i \in IngestedUnrecovered, m \in DOMAIN marks :
       /\ ingests[i].body.clienteTelefono = <<"6", " ", "1">>
       /\ marks[m].pc = "update"
       /\ marks[m].doc = ingests[i].doc
       /\ marks[m].cliente = FormatPhone(<<"6", "-", "1">>)

----------------------------------------------------------------------------
(* C24 *)

\* C24: every cart that carrito-abandonado stored has at least one line item, so
\* that composing the reminder from cart.productos[0].nombre fails in no cron run
\* and no stored cart aborts the runs that select it.
C24_StoredCartsHaveItems ==
    /\ \A k \in Carts : Len(carritosAbandonados[k].productos) >= 1
    /\ \A s \in DOMAIN sweeps : sweeps[s].err # "type-error"

----------------------------------------------------------------------------
(* C23 *)

\* cart k has a line item and belongs to tenant t1, whose sends succeed in the end
Remindable(k) ==
    /\ k \in Carts
    /\ carritosAbandonados[k].tiendaId = "t1"
    /\ Len(carritosAbandonados[k].productos) >= 1
    /\ TenantExists(k)

\* C23: liveness of the reminders. With cron runs that keep coming, the tenant of
\* the cart existing and the send to its customer succeeding in the end, every
\* pendiente cart older than the threshold gets to recordatorio_enviado, whatever
\* other carts (rejected sends, unusable data) are pendiente with it.
C23_EveryOverdueCartReminded ==
    \A k \in 1..BacklogSize :
       (Remindable(k) /\ Pending(k) /\ Overdue(k)) ~> (k \in Carts /\ ReminderSent(k))

\* the same for the cart that the query returns first only: this one holds
FirstCartReminded ==
    (Remindable(1) /\ Pending(1) /\ Overdue(1)) ~> ReminderSent(1)

----------------------------------------------------------------------------
(* C25 *)

Recovered(k) == carritosAbandonados[k].recuperado

\* the cart with its recuperado flag inverted
FlagInverted(cart) == [cart EXCEPT !.recuperado = ~@]

----------------------------------------------------------------------------
(* C26 *)

\* the update of run s for the cart it handles has succeeded in this step
SweepReminds(s, k) ==
    /\ sweeps[s].pc = "update"
    /\ sweeps[s].docs[sweeps[s].i] = k
    /\ sweeps'[s] # sweeps[s]
    /\ sweeps'[s].pc # "catch"

\* the update of request m for the cart it picked has succeeded in this step
MarkRecovers(m, k) ==
    /\ marks[m].pc = "update"
    /\ marks[m].doc = k
    /\ marks'[m].pc = "idle"

\* C26: no lost update between the cron run and pedido-creado. Whatever the
\* interleaving of a run that reminds cart k and a request that picked the same
\* cart, each of the two writes sets its own field and keeps the other one, and
\* neither field is ever taken back: so once both have written, the cart has
\* recuperado = true and estadoMensaje = recordatorio_enviado.
C26_NoLostUpdate ==
    [][ \A k \in Carts :
          /\ \A s \in DOMAIN sweeps : SweepReminds(s, k)
                => /\ carritosAbandonados'[k].estadoMensaje = "recordatorio_enviado"
                   /\ carritosAbandonados'[k].recuperado = carritosAbandonados[k].recuperado
          /\ \A m \in DOMAIN marks : MarkRecovers(m, k)
                => /\ carritosAbandonados'[k].recuperado
                   /\ carritosAbandonados'[k].estadoMensaje
                         = carritosAbandonados[k].estadoMensaje
          /\ carritosAbandonados[k].recuperado => carritosAbandonados'[k].recuperado
          /\ ReminderSent(k) => carritosAbandonados'[k].estadoMensaje = "recordatorio_enviado"
      ]_vars

\* a run and a request are both about to write the same cart: the reminder was
\* sent, the request had found the cart unrecovered, and neither has written yet
C26_Witness ==
    \E s \in DOMAIN sweeps, m \in DOMAIN marks :
       /\ sweeps[s].pc = "update"
       /\ marks[m].pc = "update"
       /\ marks[m].doc = sweeps[s].docs[sweeps[s].i]
       /\ Pending(marks[m].doc)
       /\ ~carritosAbandonados[marks[m].doc].recuperado

----------------------------------------------------------------------------
(* C27 *)

\* the reply of handler h is about to be handed to Twilio, or was
ReplyHandedOver(h) == inbound[h].pc = "reply" \/ inbound[h].reply # "none"

\* C27: persist before send for the replies. Whenever the reply of a handler is
\* handed to Twilio, the conversation of its customer already holds the customer
\* message and, after it, a bot message with the text of the reply; and a handler
\* one of whose writes to the conversation was rejected sends no reply.
C27_PersistBeforeSend ==
    \A h \in Handlers :
       /\ ReplyHandedOver(h)
             => /\ Len(inbound[h].appended) = 2
                /\ CustomerThenBot(h, inbound[h].responseMessage)
                /\ inbound[h].err # "store-error"
       /\ inbound[h].err = "store-error"
             => /\ inbound[h].pc = "caught"
                /\ inbound[h].reply = "none"
                /\ Len(inbound[h].appended) < 2

\* the reply of one handler was sent, and another handler ended without a reply
\* because the write of its bot message was rejected
C27_Witness ==
    \E h, g \in Handlers :
       /\ inbound[h].reply = "sent"
       /\ inbound[g].err = "store-error"
       /\ Len(inbound[g].appended) = 1
       /\ inbound[g].responseMessage # Undefined
       /\ inbound[g].reply = "none"

====
